---- MODULE Spec2Model ----
(***************************************************************************)
(* Model of script.js: the per-repository PR decision engine of the        *)
(* renovate / projen driver.  One behaviour is one call of script() on one *)
(* repository.  Every action is one awaited API call together with the     *)
(* synchronous code that follows it up to the next await (or the return).  *)
(* The answers of the platform are drawn from the domain record D that the *)
(* specification hands to Next.                                            *)
(***************************************************************************)
EXTENDS Integers, Sequences, FiniteSets, TLC

VARIABLES
    options,          \* { majorVersion, library, maxAgeDays, merge }
    repository,       \* { archived, default_branch }
    now,              \* the clock (minutes), read by new Date() / Date.now()
    topics,           \* <<topics.data.names>> once read (<<>>: not yet)
    pc,               \* the await the run is suspended at
    prs,              \* const prs = await octokit.paginate(...)
    i,                \* position of the for (const pr of prs) loop
    pr,               \* the pr the loop body is working on (0: none)
    fileResponse,     \* <<content>> read from the PR branch (<<>>: none)
    pending,          \* <<updatedContent>> about to be written
    wfi,              \* position in workflowFiles
    updatedFiles,     \* updateWorkflowPnpmVersions: updatedFiles
    autoMergeEnabled, \* let autoMergeEnabled
    result,           \* the PR status snapshot fetched by the prStatus query
    workflows,        \* const workflows: <<the paths listed>> (<<>>: not listed)
    runs,             \* const runs = await octokit.paginate(...)
    branch,           \* the files of the PR branch: <<>> until the run reads it
    head,             \* commit at the tip of the PR branch (the platform's)
    run,              \* which invocation of script() on this repository
    rerun,            \* the un-awaited rerun request: none/pending/resolved/rejected
    calls,            \* every API request issued, in order, with its answer
    log,              \* every octokit.log entry, in order
    faults            \* API failures so far

vars == <<options, repository, now, topics, pc, prs, i, pr, fileResponse, pending, wfi,
          updatedFiles, autoMergeEnabled, result, workflows, runs, branch, head,
          run, rerun, calls, log, faults>>

NULL == "null"

(***************************************************************************)
(* Bounds of the model.                                                    *)
(***************************************************************************)
MaxPRs == 2        \* PRs in a repository's list
MaxFaults == 1     \* API calls that fail in one run
MaxLines == 4      \* lines of a file on the PR branch
MaxRuns == 2       \* workflow runs listed

(***************************************************************************)
(* Program constants.                                                      *)
(***************************************************************************)
noTouchTopicName == "octoherd-no-touch"
DefaultLibrary == "@time-loop/cdk-library"
DefaultMaxAgeDays == 7
MinutesPerDay == 1440
ThrottleMinutes == 30
ActiveStatuses == {"in_progress", "queued", "requested", "waiting", "pending"}
workflowFiles == << ".github/workflows/build.yml",
                    ".github/workflows/release.yml",
                    ".github/workflows/update-projen-main.yml" >>
projenrcPath == ".projenrc.ts"

(***************************************************************************)
(* TitlePattern: the three values the variant selector fixes.              *)
(* A title is a sequence of text pieces; startsWith is the prefix test.    *)
(***************************************************************************)
\* fault: the recency check made for every variant
checkMaxAgeAlways(o) == TRUE

checkMaxAge(o) == o.majorVersion \in {"all", "projen"}

expectedTitle(o) ==
    CASE o.majorVersion = "all" -> <<"fix(deps): update all non-major dependencies">>
      [] o.majorVersion = "projen" -> <<"fix(deps): upgrade projen">>
      [] OTHER -> <<"fix(deps): update dependency ", o.library, " to ", o.majorVersion>>

workflowName(o) == IF o.majorVersion = "projen" THEN "update-projen-main" ELSE "renovate"

\* fault: the renovate workflow looked up for every variant
workflowPathOfRenovate(o) == <<".github/workflows/", "renovate", ".yml">>

workflowPath(o) == <<".github/workflows/", workflowName(o), ".yml">>

startsWith(title, prefix) ==
    /\ Len(title) >= Len(prefix)
    /\ SubSeq(title, 1, Len(prefix)) = prefix

(***************************************************************************)
(* File contents.  A file is a sequence of tokens: "NL" is a newline, "SP" *)
(* a blank, and every other token is a piece of text without white space  *)
(* that the regular expressions of the script treat as a unit:             *)
(*   "PMK"  packageManager:                                                *)
(*   "PMV"  javascript.NodePackageManager.PNPM                             *)
(*   "PV9"  pnpmVersion: '9'          "PV7"  pnpmVersion: "7"              *)
(*   "IMPJ" import { javascript } from 'projen';                           *)
(*   "IMPM" import { awscdk, javascript } from 'projen';                   *)
(*   "JSU"  another use of javascript. (javascript.NodePackageManager.NPM) *)
(*   ","  "{"  "}"   and "X", any other text                               *)
(*   "USES" uses: pnpm/action-setup@v4     "WITH" with:                    *)
(*   "VER"  version:    "NVER" node-version:                               *)
(*   "Q9"   "9" (quoted)     "V10"  10.22.0 (unquoted)                     *)
(* Each regular expression is modelled by its match at a position p of the *)
(* text: the position after the match, or 0 when it does not match at p.   *)
(***************************************************************************)
IsWs(t) == t \in {"NL", "SP"}

At(s, p) == IF p >= 1 /\ p <= Len(s) THEN s[p] ELSE "EOF"

Largest(S) == CHOOSE q \in S : \A x \in S : x <= q

\* \s* from p, greedy: the position after the white space
RECURSIVE WsEnd(_, _)
WsEnd(s, p) == IF IsWs(At(s, p)) THEN WsEnd(s, p + 1) ELSE p

\* ^ and $ under the m flag
AtLineStart(s, p) == p = 1 \/ At(s, p - 1) = "NL"
AtLineEnd(s, p) == p = Len(s) + 1 \/ At(s, p) = "NL"

\* \s*$ from p: greedy, then back to the last position that ends a line
LineEndFrom(s, p) ==
    LET ends == {q \in p..WsEnd(s, p) : AtLineEnd(s, q)}
    IN IF ends = {} THEN 0 ELSE Largest(ends)

\* positions of the newlines of s within lo..hi
Newlines(s, lo, hi) == {q \in lo..hi : At(s, q) = "NL"}

\* String.prototype.replace with a g regex: left to right, not overlapping;
\* ends[p] is the match at p (0: none), repl[p] what replaces it
RECURSIVE Rewrite(_, _, _, _)
Rewrite(s, ends, repl, p) ==
    IF p > Len(s) THEN <<>>
    ELSE IF ends[p] > p THEN repl[p] \o Rewrite(s, ends, repl, ends[p])
    ELSE <<s[p]>> \o Rewrite(s, ends, repl, p + 1)

\* String.prototype.includes for a token sequence
includes(s, sub) ==
    \E p \in 1..(Len(s) - Len(sub) + 1) : SubSeq(s, p, p + Len(sub) - 1) = sub

\* /^\s*packageManager:\s*javascript\.NodePackageManager\.PNPM,?\s*$/gm
MatchPackageManager(s, p) ==
    LET a == WsEnd(s, p)
        b == WsEnd(s, a + 1)
        c == IF At(s, b + 1) = "," THEN b + 2 ELSE b + 1
    IN IF AtLineStart(s, p) /\ At(s, a) = "PMK" /\ At(s, b) = "PMV"
       THEN LineEndFrom(s, c) ELSE 0

\* /^\s*pnpmVersion:\s*['"][^'"]*['"],?\s*$/gm
MatchPnpmVersion(s, p) ==
    LET a == WsEnd(s, p)
        c == IF At(s, a + 1) = "," THEN a + 2 ELSE a + 1
    IN IF AtLineStart(s, p) /\ At(s, a) \in {"PV9", "PV7"}
       THEN LineEndFrom(s, c) ELSE 0

\* /^import\s+\{[^}]*\}\s+from\s+['"]projen['"];?\s*$/gm
MatchProjenImport(s, p) ==
    IF AtLineStart(s, p) /\ At(s, p) \in {"IMPJ", "IMPM"}
    THEN LineEndFrom(s, p + 1) ELSE 0

\* [ \t]* from p
RECURSIVE BlanksEnd(_, _)
BlanksEnd(s, p) == IF At(s, p) = "SP" THEN BlanksEnd(s, p + 1) ELSE p

\* /^import\s+\{\s*javascript\s*\}\s+from\s+['"]projen['"];?[ \t]*\n/gm
MatchJavascriptImport(s, p) ==
    LET e == BlanksEnd(s, p + 1)
    IN IF AtLineStart(s, p) /\ At(s, p) = "IMPJ" /\ At(s, e) = "NL"
       THEN e + 1 ELSE 0

\* /\n\n\n+/g
RECURSIVE NewlinesEnd(_, _)
NewlinesEnd(s, p) == IF At(s, p) = "NL" THEN NewlinesEnd(s, p + 1) ELSE p

MatchBlankRun(s, p) == IF NewlinesEnd(s, p) >= p + 3 THEN NewlinesEnd(s, p) ELSE 0

\* /,\s*\n\s*\n(\s+)/g and /\{\s*\n\s*\n(\s+)/g : after the opening token the
\* white space must hold two newlines and at least one more white-space token
\* after the second; the group is what follows the last such newline
MatchBlankAfter(open, s, p) ==
    LET r == WsEnd(s, p + 1)
    IN IF At(s, p) = open /\ Cardinality(Newlines(s, p + 1, r - 2)) >= 2
       THEN r ELSE 0

GroupBlankAfter(s, p) ==
    LET r == WsEnd(s, p + 1)
    IN SubSeq(s, Largest(Newlines(s, p + 1, r - 2)) + 1, r - 1)

\* /\s*\n\s*\n(\s*\})/g : white space holding two newlines, then }
MatchBlankBeforeClose(s, p) ==
    LET r == WsEnd(s, p)
    IN IF At(s, r) = "}" /\ Cardinality(Newlines(s, p, r - 1)) >= 2
       THEN r + 1 ELSE 0

GroupBlankBeforeClose(s, p) ==
    LET r == WsEnd(s, p)
    IN SubSeq(s, Largest(Newlines(s, p, r - 1)) + 1, r)

Positions(s) == 1..Len(s)

\* replace(regex, ""): ends[p] is the match of the regex at p
Delete(s, ends) == Rewrite(s, ends, [p \in Positions(s) |-> <<>>], 1)

PackageManagerMatches(s) == [p \in Positions(s) |-> MatchPackageManager(s, p)]
PnpmVersionMatches(s) == [p \in Positions(s) |-> MatchPnpmVersion(s, p)]
ProjenImportMatches(s) == [p \in Positions(s) |-> MatchProjenImport(s, p)]
JavascriptImportMatches(s) == [p \in Positions(s) |-> MatchJavascriptImport(s, p)]

\* content.match(/pnpmVersion:\s*['"]([^'"]+)['"]/): the first pinned version
pnpmVersionMatch(s) ==
    LET at == {p \in Positions(s) : s[p] \in {"PV9", "PV7"}}
    IN IF at = {} THEN NULL
       ELSE s[CHOOSE p \in at : \A q \in at : p <= q]

hasDeprecatedMarker(content) == includes(content, <<"PMK", "SP", "PMV">>)

usesJavascript(s) == \E p \in Positions(s) : s[p] \in {"PMV", "JSU"}

\* script.js 259-319: the rewrite of .projenrc.ts once the marker was found
removePackageManager(content) ==
    LET u == Delete(content, PackageManagerMatches(content))
    IN Delete(u, PnpmVersionMatches(u))

removeImport(u) ==
    IF ~usesJavascript(Delete(u, ProjenImportMatches(u)))
    THEN Delete(u, JavascriptImportMatches(u)) ELSE u

collapseBlankLines(u) ==
    Rewrite(u, [p \in Positions(u) |-> MatchBlankRun(u, p)],
               [p \in Positions(u) |-> <<"NL", "NL">>], 1)

cleanAfter(open, u) ==
    Rewrite(u, [p \in Positions(u) |-> MatchBlankAfter(open, u, p)],
               [p \in Positions(u) |->
                    IF MatchBlankAfter(open, u, p) > 0
                    THEN <<open, "NL">> \o GroupBlankAfter(u, p) ELSE <<>>], 1)

cleanBeforeClose(u) ==
    Rewrite(u, [p \in Positions(u) |-> MatchBlankBeforeClose(u, p)],
               [p \in Positions(u) |->
                    IF MatchBlankBeforeClose(u, p) > 0
                    THEN <<"NL">> \o GroupBlankBeforeClose(u, p) ELSE <<>>], 1)

fixProjenrc(content) ==
    cleanBeforeClose(cleanAfter("{", cleanAfter(",",
        collapseBlankLines(removeImport(removePackageManager(content))))))

\* /uses:\s*pnpm\/action-setup@v4[\s\S]*?with:\s*\n(\s+)version:\s*"9"/
\* a with: at w whose white space holds a newline followed by more white space,
\* then version: "9"
PinnedAfterWith(s, w) ==
    LET r == WsEnd(s, w + 1)
    IN /\ At(s, w) = "WITH"
       /\ Newlines(s, w + 1, r - 2) # {}
       /\ At(s, r) = "VER"
       /\ At(s, WsEnd(s, r + 1)) = "Q9"

pnpmActionRegexTest(s) ==
    \E u \in Positions(s) : \E w \in Positions(s) :
        u < w /\ s[u] = "USES" /\ PinnedAfterWith(s, w)

\* /(\s+version:\s*)"9"/g
MatchQuotedVersion(s, p) ==
    LET r == WsEnd(s, p)
        q == WsEnd(s, r + 1)
    IN IF r > p /\ At(s, r) = "VER" /\ At(s, q) = "Q9" THEN q + 1 ELSE 0

\* replace(..., "$110.22.0"): group 1, then 10.22.0
replaceQuotedVersion(s) ==
    Rewrite(s, [p \in Positions(s) |-> MatchQuotedVersion(s, p)],
               [p \in Positions(s) |->
                    IF MatchQuotedVersion(s, p) > 0
                    THEN SubSeq(s, p, MatchQuotedVersion(s, p) - 2) \o <<"V10">>
                    ELSE <<>>], 1)

(***************************************************************************)
(* What the platform can answer.                                           *)
(***************************************************************************)
SeqsUpTo(S, n) == UNION {[1..m -> S] : m \in 0..n}

\* A timestamp is <<>> (null) or <<t>>, t in minutes; Date.parse reads t.
DateParse(ts) == ts[1]

\* the timestamp of what happened age[1] minutes before t
Ago(age, t) == IF age = <<>> THEN <<>> ELSE <<t - age[1]>>

\* a pull request as the pulls listing returns it; number k is its place in
\* the listing
TitleOf(kind, o) ==
    CASE kind = "exact" -> expectedTitle(o)
      [] kind = "longer" -> expectedTitle(o) \o <<"1">>
      [] OTHER -> <<"chore: release">>

MkPR(shape, k, o, t) ==
    [number |-> k,
     title |-> TitleOf(shape.title, o),
     merged_at |-> Ago(shape.merged, t),
     closed_at |-> IF shape.closed THEN <<t - 1>> ELSE <<>>,
     draft |-> shape.draft]

Shape(title, merged, closed, draft) ==
    [title |-> title, merged |-> merged, closed |-> closed, draft |-> draft]

\* merged exactly maxAgeDays ago, and one minute earlier
AgeAtLimit == DefaultMaxAgeDays * MinutesPerDay
AgePastLimit == DefaultMaxAgeDays * MinutesPerDay + 1

OpenPR == Shape("exact", <<>>, FALSE, FALSE)
DraftPR == Shape("exact", <<>>, FALSE, TRUE)
ClosedPR == Shape("exact", <<>>, TRUE, FALSE)
MergedPR == Shape("exact", <<AgeAtLimit>>, TRUE, FALSE)
StalePR == Shape("exact", <<AgePastLimit>>, TRUE, FALSE)
LongerPR == Shape("longer", <<>>, FALSE, FALSE)
OtherPR == Shape("other", <<>>, FALSE, FALSE)

PRShapes == {OpenPR, DraftPR, ClosedPR, MergedPR, StalePR, LongerPR, OtherPR}

ReviewDecisions == {"APPROVED", "REVIEW_REQUIRED", "CHANGES_REQUESTED", NULL}

Statuses ==
    [mergeable : {"MERGEABLE", "CONFLICTING", "UNKNOWN"},
     reviewDecision : ReviewDecisions,
     viewerCanUpdate : BOOLEAN,
     viewerDidAuthor : BOOLEAN,
     reviews : {<<>>, <<FALSE>>, <<FALSE, TRUE>>},
     rollup : {NULL, "SUCCESS", "FAILURE"}]

\* no snapshot fetched yet
NoResult ==
    [mergeable |-> NULL, reviewDecision |-> NULL, viewerCanUpdate |-> FALSE,
     viewerDidAuthor |-> FALSE, reviews |-> <<>>, rollup |-> NULL, oid |-> 0]

Ready ==
    [mergeable |-> "MERGEABLE", reviewDecision |-> "APPROVED",
     viewerCanUpdate |-> TRUE, viewerDidAuthor |-> FALSE, reviews |-> <<>>,
     rollup |-> "SUCCESS"]

TopicSets == {{"cdk"}, {"cdk", noTouchTopicName}}

WorkflowNames == {"renovate", "update-projen-main", "build"}

PathOf(name) == <<".github/workflows/", name, ".yml">>

\* workflow listings: none, one without the variant's workflow, and one
\* with the workflow of every variant
FewWorkflowLists == {{}, {"build"}, WorkflowNames}

\* a workflow run; its run_number n is also its id.  A run started age
\* minutes ago; a completed run finished done minutes ago (its updated_at),
\* an active one was last updated just now.
RunShapes ==
    {r \in [head_branch : {"main", "master"},
            status : {"completed", "in_progress", "queued"},
            age : {<<>>, <<ThrottleMinutes - 1>>, <<ThrottleMinutes>>},
            done : {<<0>>, <<10>>, <<ThrottleMinutes>>}] :
        /\ r.status # "completed" <=> r.done = <<0>>
        /\ r.age # <<>> => r.done[1] <= r.age[1]}

MkRun(shape, k, n, t) ==
    [id |-> n, run_number |-> n, head_branch |-> shape.head_branch,
     status |-> shape.status,
     run_started_at |-> Ago(shape.age, t),
     updated_at |-> Ago(shape.done, t)]

Lines(ls) ==
    LET RECURSIVE Cat(_)
        Cat(k) == IF k > Len(ls) THEN <<>> ELSE ls[k] \o <<"NL">> \o Cat(k + 1)
    IN Cat(1)

(***************************************************************************)
(* The log and the requests.                                               *)
(***************************************************************************)
Entry(level, msg) == [level |-> level, msg |-> msg]

\* the messages whose template holds neither repository.full_name nor
\* pr.html_url: `Missing workflow at ${workflowPath}` and the caught error e
withoutRepository == {"missing workflow", "caught"}

\* the entry carries the repository identity
namesRepository(entry) == entry.msg \notin withoutRepository

Req(op, n, path, arg, sha, res) ==
    [op |-> op, pr |-> n, path |-> path, arg |-> arg, sha |-> sha, res |-> res,
     run |-> run]

Get(op, res) == Req(op, 0, "", <<>>, <<>>, res)

inputs == <<options, repository, now, run>>
gate == <<inputs, topics>>
loopVars == <<prs, i, pr>>
repairVars == <<fileResponse, pending, wfi, updatedFiles>>
mergeVars == <<autoMergeEnabled, result>>
rerunVars == <<workflows, runs, rerun>>

\* an awaited request that rejects inside the outer try: catch (e) logs it
CatchAll(c, D) ==
    /\ faults < D.maxFaults
    /\ faults' = faults + 1
    /\ calls' = Append(calls, c)
    /\ log' = Append(log, Entry("error", "caught"))
    /\ pc' = "done"
    /\ UNCHANGED <<gate, loopVars, repairVars, mergeVars, rerunVars, branch,
                   head>>

\* the state at the call of script(), maxAgeDays drawn from ages and the
\* name of the repository's default branch from branches
Start(ages, branches) ==
    /\ options \in [majorVersion : {NULL, "v1", "all", "projen"},
                    library : {DefaultLibrary},
                    maxAgeDays : ages,
                    merge : BOOLEAN]
    /\ repository \in [archived : BOOLEAN, default_branch : branches]
    /\ now = 3 * DefaultMaxAgeDays * MinutesPerDay
    /\ topics = <<>>
    /\ pc = "entry"
    /\ prs = <<>>
    /\ i = 0
    /\ pr = 0
    /\ fileResponse = <<>>
    /\ pending = <<>>
    /\ wfi = 0
    /\ updatedFiles = <<>>
    /\ autoMergeEnabled = FALSE
    /\ result = NoResult
    /\ workflows = <<>>
    /\ runs = <<>>
    /\ branch = <<>>
    /\ head = 1
    /\ run = 1
    /\ rerun = "none"
    /\ calls = <<>>
    /\ log = <<>>
    /\ faults = 0

\* maxAgeDays = 7, the default
Init == Start({DefaultMaxAgeDays}, {"main"})

\* maxAgeDays given as 7 or as 8
MaxAges == {DefaultMaxAgeDays, DefaultMaxAgeDays + 1}

InitLocator == Start(MaxAges, {"main"})

\* a repository whose default branch is main, and one where it is master
DefaultBranches == {"main", "master"}

InitRerun == Start({DefaultMaxAgeDays}, DefaultBranches)

(***************************************************************************)
(* script.js 127-162: the variant selector, the archived check.            *)
(***************************************************************************)
\* fault: the archived check left out
EnterWithoutArchivedCheck ==
    /\ pc = "entry"
    /\ IF options.majorVersion = NULL THEN pc' = "threw" ELSE pc' = "topics"
    /\ UNCHANGED <<gate, loopVars, repairVars, mergeVars, rerunVars, branch,
                   head, calls, log, faults>>

\* fault: the missing variant selector handled by the catch-all
EnterCatchingMissingVersion ==
    /\ pc = "entry"
    /\ IF options.majorVersion = NULL
       THEN pc' = "done" /\ log' = Append(log, Entry("error", "caught"))
       ELSE IF repository.archived
       THEN pc' = "done" /\ log' = Append(log, Entry("info", "archived"))
       ELSE pc' = "topics" /\ UNCHANGED log
    /\ UNCHANGED <<gate, loopVars, repairVars, mergeVars, rerunVars, branch,
                   head, calls, faults>>

Enter ==
    /\ pc = "entry"
    /\ IF options.majorVersion = NULL
       THEN pc' = "threw" /\ UNCHANGED log
       ELSE IF repository.archived
       THEN pc' = "done" /\ log' = Append(log, Entry("info", "archived"))
       ELSE pc' = "topics" /\ UNCHANGED log
    /\ UNCHANGED <<gate, loopVars, repairVars, mergeVars, rerunVars, branch,
                   head, calls, faults>>

(***************************************************************************)
(* script.js 158-175: the topics read and the opt-out label.               *)
(***************************************************************************)
\* fault: the opt-out label looked up under another name
optedOutByOtherName(names) == "no-touch" \in names

\* topics.data.names.includes(noTouchTopicName)
optedOut(names) == noTouchTopicName \in names

GetTopics(D) ==
    /\ pc = "topics"
    /\ \/ CatchAll(Get("GET topics", "fail"), D)
       \/ \E names \in TopicSets :
            /\ calls' = Append(calls, Get("GET topics", "ok"))
            /\ topics' = <<names>>
            /\ IF optedOut(names)
               THEN pc' = "done" /\ log' = Append(log, Entry("warn", "no-touch"))
               ELSE pc' = "pulls" /\ UNCHANGED log
            /\ UNCHANGED <<inputs, loopVars, repairVars, mergeVars, rerunVars,
                           branch, head, faults>>

ListPRs(D) ==
    /\ pc = "pulls"
    /\ \/ CatchAll(Get("GET pulls", "fail"), D)
       \/ \E l \in D.prLists :
            /\ calls' = Append(calls, Get("GET pulls", "ok"))
            /\ prs' = [k \in 1..Len(l) |-> MkPR(l[k], k, options, now)]
            /\ i' = 1
            /\ pc' = "scan"
            /\ UNCHANGED <<gate, pr, repairVars, mergeVars, rerunVars, branch,
                           head, log, faults>>

(***************************************************************************)
(* script.js 176-209: the PR Locator, one loop iteration per step.         *)
(***************************************************************************)
daysAgoExceeds(p, o, t) ==
    (t - DateParse(p.merged_at)) > o.maxAgeDays * MinutesPerDay

\* fault: a stale merge skipped (continue) instead of ending the scan (break)
scanOutcomeSkippingStale(p, o, t) ==
    IF ~startsWith(p.title, expectedTitle(o)) THEN "continue"
    ELSE IF p.merged_at # <<>>
         THEN IF checkMaxAge(o) /\ daysAgoExceeds(p, o, t) THEN "continue"
              ELSE "merged"
    ELSE IF p.closed_at # <<>> THEN "continue"
    ELSE IF p.draft THEN "draft"
    ELSE "candidate"

\* fault: the closed check left out
scanOutcomeIgnoringClosed(p, o, t) ==
    IF ~startsWith(p.title, expectedTitle(o)) THEN "continue"
    ELSE IF p.merged_at # <<>>
         THEN IF checkMaxAge(o) /\ daysAgoExceeds(p, o, t) THEN "break"
              ELSE "merged"
    ELSE IF p.draft THEN "draft"
    ELSE "candidate"

\* fault: the draft check left out
scanOutcomeIgnoringDraft(p, o, t) ==
    IF ~startsWith(p.title, expectedTitle(o)) THEN "continue"
    ELSE IF p.merged_at # <<>>
         THEN IF checkMaxAge(o) /\ daysAgoExceeds(p, o, t) THEN "break"
              ELSE "merged"
    ELSE IF p.closed_at # <<>> THEN "continue"
    ELSE "candidate"

\* fault: every merged title match ends the scan, recent or not
scanOutcomeBreakingAtMerge(p, o, t) ==
    IF ~startsWith(p.title, expectedTitle(o)) THEN "continue"
    ELSE IF p.merged_at # <<>> THEN "break"
    ELSE IF p.closed_at # <<>> THEN "continue"
    ELSE IF p.draft THEN "draft"
    ELSE "candidate"

\* fault: a recent merge passed over like a closed PR
scanOutcomeSkippingMerged(p, o, t) ==
    IF ~startsWith(p.title, expectedTitle(o)) THEN "continue"
    ELSE IF p.merged_at # <<>>
         THEN IF checkMaxAge(o) /\ daysAgoExceeds(p, o, t) THEN "break"
              ELSE "continue"
    ELSE IF p.closed_at # <<>> THEN "continue"
    ELSE IF p.draft THEN "draft"
    ELSE "candidate"

\* fault: a closed title match ends the scan
scanOutcomeStoppingAtClosed(p, o, t) ==
    IF ~startsWith(p.title, expectedTitle(o)) THEN "continue"
    ELSE IF p.merged_at # <<>>
         THEN IF checkMaxAge(o) /\ daysAgoExceeds(p, o, t) THEN "break"
              ELSE "merged"
    ELSE IF p.closed_at # <<>> THEN "break"
    ELSE IF p.draft THEN "draft"
    ELSE "candidate"

\* what the loop body does with pr p: continue, break, return or go on
scanOutcome(p, o, t) ==
    IF ~startsWith(p.title, expectedTitle(o)) THEN "continue"
    ELSE IF p.merged_at # <<>>
         THEN IF checkMaxAge(o) /\ daysAgoExceeds(p, o, t) THEN "break"
              ELSE "merged"
    ELSE IF p.closed_at # <<>> THEN "continue"
    ELSE IF p.draft THEN "draft"
    ELSE "candidate"

\* fault: the auto-merge attempt not guarded by the merge option
AfterRepairAlwaysAutoMerge == "automerge"

\* script.js 365-366: the first await after Content Repair
AfterRepair == IF options.merge THEN "automerge" ELSE "status"

\* fault: Content Repair entered for every variant
AfterSelectionAlwaysRepair == "getProjenrc"

\* script.js 211: Content Repair is for the projen variant
AfterSelection ==
    IF options.majorVersion = "projen" THEN "getProjenrc" ELSE AfterRepair

NoPRLog == Entry("warn", "no PR")

ScanPR ==
    /\ pc = "scan"
    /\ IF i > Len(prs)
       THEN /\ pc' = "workflows"
            /\ log' = Append(log, NoPRLog)
            /\ UNCHANGED <<i, pr>>
       ELSE LET p == prs[i]
                out == scanOutcome(p, options, now)
            IN CASE out = "continue" ->
                      /\ i' = i + 1
                      /\ UNCHANGED <<pc, pr, log>>
                 [] out = "break" ->
                      /\ pc' = "workflows"
                      /\ log' = log \o <<Entry("info", "merged, ignoring"), NoPRLog>>
                      /\ UNCHANGED <<i, pr>>
                 [] out = "merged" ->
                      /\ pc' = "done"
                      /\ log' = Append(log, Entry("info", "already merged"))
                      /\ UNCHANGED <<i, pr>>
                 [] out = "draft" ->
                      /\ pc' = "done"
                      /\ log' = Append(log, Entry("warn", "draft"))
                      /\ UNCHANGED <<i, pr>>
                 [] OTHER ->
                      /\ pr' = p.number
                      /\ pc' = AfterSelection
                      /\ UNCHANGED <<i, log>>
    /\ UNCHANGED <<gate, prs, repairVars, mergeVars, rerunVars, branch, head,
                   calls, faults>>

(***************************************************************************)
(* script.js 210-363: the .projenrc.ts fix on the PR branch.               *)
(***************************************************************************)
\* fault: the write sent without the sha of the file read
ContentsWithoutSha(op, path, content, sha, res) ==
    Req(op, pr, path, content, IF op = "PUT contents" THEN <<>> ELSE sha, res)

\* a contents request on the PR branch (ref, branch: prBranch).  A blob's sha
\* stands for its content: a read answers with the sha of the content it
\* returns, a write carries the sha it was given.
Contents(op, path, content, sha, res) == Req(op, pr, path, content, sha, res)

\* script.js 261-269: the warning about a pinned version other than '9'
nonStandardPnpmVersion(content) == pnpmVersionMatch(content) \notin {NULL, "PV9"}

\* .projenrc.ts with the deprecated option and a pinned version
ProjenrcDeprecated ==
    Lines(<< <<"X", "{">>, <<"SP", "PMK", "SP", "PMV", ",">>,
             <<"SP", "PV9", ",">>, <<"}", "X">> >>)

\* a workflow file with the pnpm/action-setup stanza pinned to "9"
WorkflowPinned ==
    Lines(<< <<"SP", "USES">>, <<"SP", "WITH">>, <<"SP", "SP", "VER", "SP", "Q9">> >>)

\* a PR branch: the four files Content Repair reads, <<>> for a missing one
Branch(projenrc, build, release, update) ==
    (projenrcPath :> projenrc) @@ (workflowFiles[1] :> build)
    @@ (workflowFiles[2] :> release) @@ (workflowFiles[3] :> update)

FewBranches ==
    {Branch(<<>>, <<>>, <<>>, <<>>),
     Branch(<<ProjenrcDeprecated>>, <<WorkflowPinned>>, <<>>, <<>>)}

\* lines of a .projenrc.ts: the import, an opening and a closing line, a blank
\* line, the option on one line, the option followed by a comment, the option's
\* key and its value on lines of their own, and the version pin
ProjenrcLines ==
    {<<"IMPJ">>, <<"X", "{">>, <<"}", "X">>, <<>>,
     <<"SP", "PMK", "SP", "PMV", ",">>,
     <<"SP", "PMK", "SP", "PMV", ",", "SP", "X">>,
     <<"SP", "PMK">>, <<"SP", "PMV", ",">>,
     <<"SP", "PV9", ",">>}

\* lines of a .projenrc.ts that pins pnpm "7": the import, an opening and a
\* closing line, the option on one line, the option followed by a comment,
\* the version pin, and another use of javascript.
PinnedLines ==
    {<<"IMPJ">>, <<"X", "{">>, <<"}", "X">>,
     <<"SP", "PMK", "SP", "PMV", ",">>,
     <<"SP", "PMK", "SP", "PMV", ",", "SP", "X">>,
     <<"SP", "PV7", ",">>,
     <<"SP", "JSU", ",">>}

\* lines of a workflow file
WorkflowLines ==
    {<<"SP", "USES">>, <<"SP", "X">>, <<"SP", "WITH">>,
     <<"SP", "SP", "VER", "SP", "Q9">>, <<"SP", "SP", "VER", "SP", "V10">>,
     <<"SP", "SP", "NVER", "SP", "Q9">>}

\* every file of up to MaxLines of the given lines
FilesOf(lines) == {Lines(ls) : ls \in SeqsUpTo(lines, MaxLines)}

\* the branches a run can find: the two above, and those whose .projenrc.ts
\* or build.yml is made of the lines the domain gives
BranchesOf(D) ==
    FewBranches
    \cup {Branch(<<f>>, <<WorkflowPinned>>, <<>>, <<>>) : f \in FilesOf(D.projenrcLines)}
    \cup {Branch(<<ProjenrcDeprecated>>, <<f>>, <<WorkflowPinned>>, <<>>) :
             f \in FilesOf(D.workflowLines)}

\* the branch as this run finds it: drawn when the run first reads it
BranchSeen(D) == IF branch = <<>> THEN BranchesOf(D) ELSE {branch[1]}

GetProjenrc(D) ==
    /\ pc = "getProjenrc"
    /\ \/ /\ faults < D.maxFaults
          /\ faults' = faults + 1
          /\ calls' = Append(calls,
                         Contents("GET contents", projenrcPath, <<>>, <<>>, "fail"))
          /\ log' = Append(log, Entry("warn", "could not fetch projenrc"))
          /\ pc' = AfterRepair
          /\ UNCHANGED <<repairVars, branch>>
       \/ \E b \in BranchSeen(D) :
            /\ branch' = <<b>>
            /\ IF b[projenrcPath] = <<>>
               THEN /\ calls' = Append(calls, Contents("GET contents", projenrcPath,
                                                       <<>>, <<>>, "404"))
                    /\ log' = Append(log, Entry("info", "projenrc not found"))
                    /\ pc' = AfterRepair
                    /\ UNCHANGED repairVars
               ELSE LET content == b[projenrcPath][1]
                        updatedContent == fixProjenrc(content)
                        found == <<Entry("info", "found deprecated")>>
                                 \o IF nonStandardPnpmVersion(content)
                                    THEN <<Entry("warn", pnpmVersionMatch(content))>>
                                    ELSE <<>>
                    IN /\ calls' = Append(calls, Contents("GET contents", projenrcPath,
                                                          <<>>, content, "ok"))
                       /\ fileResponse' = <<content>>
                       /\ IF ~hasDeprecatedMarker(content)
                          THEN /\ pc' = "getWorkflow"
                               /\ wfi' = 1
                               /\ UNCHANGED <<pending, log>>
                          ELSE IF updatedContent # content
                          THEN /\ pending' = <<updatedContent>>
                               /\ pc' = "putProjenrc"
                               /\ log' = log \o found
                               /\ UNCHANGED wfi
                          ELSE /\ log' = log \o found
                                         \o <<Entry("info", "no changes needed")>>
                               /\ pc' = "getWorkflow"
                               /\ wfi' = 1
                               /\ UNCHANGED pending
                       /\ UNCHANGED updatedFiles
            /\ UNCHANGED faults
    /\ UNCHANGED <<gate, loopVars, mergeVars, rerunVars, head>>

\* the contents write: the commit lands on the PR branch
Commit(path) ==
    /\ branch' = <<[branch[1] EXCEPT ![path] = pending]>>
    /\ head' = head + 1

PutProjenrc(D) ==
    /\ pc = "putProjenrc"
    /\ \/ /\ calls' = Append(calls, Contents("PUT contents", projenrcPath,
                                             pending[1], fileResponse[1], "ok"))
          /\ Commit(projenrcPath)
          /\ log' = Append(log, Entry("info", "fixed projenrc"))
          /\ pc' = "getWorkflow"
          /\ wfi' = 1
          /\ UNCHANGED faults
       \/ /\ faults < D.maxFaults
          /\ faults' = faults + 1
          /\ calls' = Append(calls, Contents("PUT contents", projenrcPath,
                                             pending[1], fileResponse[1], "fail"))
          /\ log' = Append(log, Entry("error", "error while fixing projenrc"))
          /\ pc' = AfterRepair
          /\ UNCHANGED <<branch, head, wfi>>
    /\ UNCHANGED <<gate, loopVars, fileResponse, pending, updatedFiles,
                   mergeVars, rerunVars>>

(***************************************************************************)
(* script.js 13-104: updateWorkflowPnpmVersions, one file per step.        *)
(***************************************************************************)
SummaryLog(files) ==
    IF Len(files) > 0 THEN Entry("info", "updated workflow files")
    ELSE Entry("info", "no workflow files needed update")

\* the end of one iteration of for (const workflowPath of workflowFiles)
NextWorkflowFile(entries, files) ==
    IF wfi = Len(workflowFiles)
    THEN /\ pc' = AfterRepair
         /\ log' = log \o entries \o <<SummaryLog(files)>>
         /\ UNCHANGED wfi
    ELSE /\ pc' = "getWorkflow"
         /\ wfi' = wfi + 1
         /\ log' = log \o entries

GetWorkflow(D) ==
    /\ pc = "getWorkflow"
    /\ LET path == workflowFiles[wfi]
           file == branch[1][path]
       IN \/ /\ faults < D.maxFaults
             /\ faults' = faults + 1
             /\ calls' = Append(calls,
                            Contents("GET contents", path, <<>>, <<>>, "fail"))
             /\ NextWorkflowFile(<<Entry("warn", "failed to update workflow file")>>,
                                 updatedFiles)
             /\ UNCHANGED <<fileResponse, pending>>
          \/ /\ file = <<>>
             /\ calls' = Append(calls,
                            Contents("GET contents", path, <<>>, <<>>, "404"))
             /\ NextWorkflowFile(<<Entry("info", "workflow file not found")>>,
                                 updatedFiles)
             /\ UNCHANGED <<fileResponse, pending, faults>>
          \/ /\ file # <<>>
             /\ calls' = Append(calls,
                            Contents("GET contents", path, <<>>, file[1], "ok"))
             /\ fileResponse' = file
             /\ IF pnpmActionRegexTest(file[1])
                   /\ replaceQuotedVersion(file[1]) # file[1]
                THEN /\ pending' = <<replaceQuotedVersion(file[1])>>
                     /\ pc' = "putWorkflow"
                     /\ UNCHANGED <<wfi, log>>
                ELSE /\ NextWorkflowFile(<<>>, updatedFiles)
                     /\ UNCHANGED pending
             /\ UNCHANGED faults
    /\ UNCHANGED <<gate, loopVars, updatedFiles, mergeVars, rerunVars, branch, head>>

PutWorkflow(D) ==
    /\ pc = "putWorkflow"
    /\ \/ /\ calls' = Append(calls, Contents("PUT contents", workflowFiles[wfi],
                                             pending[1], fileResponse[1], "ok"))
          /\ Commit(workflowFiles[wfi])
          /\ updatedFiles' = Append(updatedFiles, workflowFiles[wfi])
          /\ NextWorkflowFile(<<Entry("info", "updated pnpm version")>>,
                              Append(updatedFiles, workflowFiles[wfi]))
          /\ UNCHANGED faults
       \/ /\ faults < D.maxFaults
          /\ faults' = faults + 1
          /\ calls' = Append(calls, Contents("PUT contents", workflowFiles[wfi],
                                             pending[1], fileResponse[1], "fail"))
          /\ NextWorkflowFile(<<Entry("warn", "failed to update workflow file")>>,
                              updatedFiles)
          /\ UNCHANGED <<branch, head, updatedFiles>>
    /\ UNCHANGED <<gate, loopVars, fileResponse, pending, mergeVars, rerunVars>>

(***************************************************************************)
(* script.js 365-396: the auto-merge attempt, made before the status query.*)
(***************************************************************************)
\* fault: a rejected auto-merge mutation left to the catch-all
EnableAutoMergeAborting ==
    /\ pc = "automerge"
    /\ \/ /\ calls' = Append(calls, Req("enableAutoMerge", pr, "", <<>>, <<>>, "ok"))
          /\ autoMergeEnabled' = TRUE
          /\ log' = Append(log, Entry("info", "auto-merge enabled"))
          /\ pc' = "status"
       \/ /\ calls' = Append(calls, Req("enableAutoMerge", pr, "", <<>>, <<>>, "fail"))
          /\ log' = Append(log, Entry("error", "caught"))
          /\ pc' = "done"
          /\ UNCHANGED autoMergeEnabled
    /\ UNCHANGED <<gate, loopVars, repairVars, result, rerunVars, branch, head,
                   faults>>

EnableAutoMerge ==
    /\ pc = "automerge"
    /\ \/ /\ calls' = Append(calls, Req("enableAutoMerge", pr, "", <<>>, <<>>, "ok"))
          /\ autoMergeEnabled' = TRUE
          /\ log' = Append(log, Entry("info", "auto-merge enabled"))
       \/ /\ calls' = Append(calls, Req("enableAutoMerge", pr, "", <<>>, <<>>, "fail"))
          /\ log' = Append(log, Entry("info", "auto-merge not available"))
          /\ UNCHANGED autoMergeEnabled
    /\ pc' = "status"
    /\ UNCHANGED <<gate, loopVars, repairVars, result, rerunVars, branch, head,
                   faults>>

(***************************************************************************)
(* script.js 398-536: the PR status snapshot and the decision table.       *)
(***************************************************************************)
\* statusCheckRollup?.state || "PENDING"
combinedStatus(st) == IF st.rollup = NULL THEN "PENDING" ELSE st.rollup

\* !!latestOpinionatedReviews.nodes.find((node) => node.viewerDidAuthor)
viewerDidApprove(st) == \E k \in 1..Len(st.reviews) : st.reviews[k]

\* fault: the caller's authorship not consulted
canApproveUnlessReviewed(st) == ~viewerDidApprove(st)

\* fault: the approval made conditional on the merge option
canApproveWhenMerging(st) ==
    options.merge /\ ~st.viewerDidAuthor /\ ~viewerDidApprove(st)

\* script.js 491
canApprove(st) == ~st.viewerDidAuthor /\ ~viewerDidApprove(st)

\* fault: the decision table without the CI gate
evaluateWithoutStatusGate(st) ==
    IF ~st.viewerCanUpdate THEN "cannot update"
    ELSE IF st.mergeable # "MERGEABLE" THEN "not mergeable"
    ELSE IF st.reviewDecision # "APPROVED"
         THEN IF canApprove(st) THEN "approve" ELSE "awaiting approval"
    ELSE "merge"

\* fault: the CI gate consulted before the caller's right to update
evaluateStatusFirst(st) ==
    IF combinedStatus(st) # "SUCCESS" THEN "status"
    ELSE IF ~st.viewerCanUpdate THEN "cannot update"
    ELSE IF st.mergeable # "MERGEABLE" THEN "not mergeable"
    ELSE IF st.reviewDecision # "APPROVED"
         THEN IF canApprove(st) THEN "approve" ELSE "awaiting approval"
    ELSE "merge"

\* fault: the decision table without the mergeable gate
evaluateWithoutMergeableGate(st) ==
    IF ~st.viewerCanUpdate THEN "cannot update"
    ELSE IF combinedStatus(st) # "SUCCESS" THEN "status"
    ELSE IF st.reviewDecision # "APPROVED"
         THEN IF canApprove(st) THEN "approve" ELSE "awaiting approval"
    ELSE "merge"

\* the decision table, first match wins
evaluate(st) ==
    IF ~st.viewerCanUpdate THEN "cannot update"
    ELSE IF combinedStatus(st) # "SUCCESS" THEN "status"
    ELSE IF st.mergeable # "MERGEABLE" THEN "not mergeable"
    ELSE IF st.reviewDecision # "APPROVED"
         THEN IF canApprove(st) THEN "approve" ELSE "awaiting approval"
    ELSE "merge"

\* fault: the manual merge not made conditional on the auto-merge attempt
manualMergeIgnoringAutoMerge(merge, enabled) == merge

\* script.js 538: if (merge && !autoMergeEnabled)
manualMerge(merge, enabled) == merge /\ ~enabled

\* script.js 538-557, up to the await of the merge request
MergeStage ==
    IF manualMerge(options.merge, autoMergeEnabled)
    THEN pc' = "merge" /\ UNCHANGED log
    ELSE pc' = "done" /\ log' = Append(log, Entry("info", "ready to merge (merge disabled)"))

QueryStatus(D) ==
    /\ pc = "status"
    /\ \/ CatchAll(Req("prStatus", pr, "", <<>>, <<>>, "fail"), D)
       \/ \E st \in D.statuses :
            /\ calls' = Append(calls, Req("prStatus", pr, "", <<>>, <<>>, "ok"))
            /\ result' = [mergeable |-> st.mergeable,
                          reviewDecision |-> st.reviewDecision,
                          viewerCanUpdate |-> st.viewerCanUpdate,
                          viewerDidAuthor |-> st.viewerDidAuthor,
                          reviews |-> st.reviews,
                          rollup |-> st.rollup,
                          oid |-> head]
            /\ CASE evaluate(st) = "merge" -> MergeStage
                 [] evaluate(st) = "approve" -> pc' = "approve" /\ UNCHANGED log
                 [] OTHER -> pc' = "done" /\ log' = Append(log, Entry("info", evaluate(st)))
            /\ UNCHANGED <<gate, loopVars, repairVars, autoMergeEnabled,
                           rerunVars, branch, head, faults>>

\* fault: the approval references the commit the branch had before the repair
ApproveFirstCommit(D) ==
    /\ pc = "approve"
    /\ \/ CatchAll(Req("POST reviews", pr, "", <<1>>, <<>>, "fail"), D)
       \/ /\ calls' = Append(calls, Req("POST reviews", pr, "", <<1>>, <<>>, "ok"))
          /\ pc' = "recheck"
          /\ UNCHANGED <<gate, loopVars, repairVars, mergeVars, rerunVars,
                         branch, head, log, faults>>

\* fault: the merge step entered right after the approval, no re-fetch
ApproveWithoutRecheck(D) ==
    /\ pc = "approve"
    /\ \/ CatchAll(Req("POST reviews", pr, "", <<result.oid>>, <<>>, "fail"), D)
       \/ /\ calls' = Append(calls, Req("POST reviews", pr, "", <<result.oid>>, <<>>, "ok"))
          /\ MergeStage
          /\ UNCHANGED <<gate, loopVars, repairVars, mergeVars, rerunVars,
                         branch, head, faults>>

Approve(D) ==
    /\ pc = "approve"
    /\ \/ CatchAll(Req("POST reviews", pr, "", <<result.oid>>, <<>>, "fail"), D)
       \/ /\ calls' = Append(calls, Req("POST reviews", pr, "", <<result.oid>>, <<>>, "ok"))
          /\ pc' = "recheck"
          /\ UNCHANGED <<gate, loopVars, repairVars, mergeVars, rerunVars,
                         branch, head, log, faults>>

\* fault: the re-fetched decision not consulted
stillUnapprovedNever(newReviewDecision) == FALSE

\* script.js 520: if (newReviewDecision !== "APPROVED")
stillUnapproved(newReviewDecision) == newReviewDecision # "APPROVED"

Recheck(D) ==
    /\ pc = "recheck"
    /\ \/ CatchAll(Req("reviewDecision", pr, "", <<>>, <<>>, "fail"), D)
       \/ \E newReviewDecision \in ReviewDecisions :
            /\ calls' = Append(calls,
                           Req("reviewDecision", pr, "", <<>>, <<>>, newReviewDecision))
            /\ IF stillUnapproved(newReviewDecision)
               THEN pc' = "done" /\ log' = Append(log, Entry("info", "awaiting approval"))
               ELSE MergeStage
            /\ UNCHANGED <<gate, loopVars, repairVars, mergeVars, rerunVars,
                           branch, head, faults>>

\* fault: the PR number left out of the commit title
commit_titleWithoutNumber(p) == p.title

\* script.js 547
merge_method == "squash"

\* `${pr.title} (#${pr.number})`
commit_title(p) == p.title \o <<" (#", p.number, ")">>

\* fault: a rejected merge request sent again
MergeRetrying(D) ==
    /\ pc = "merge"
    /\ \/ /\ faults < D.maxFaults
          /\ faults' = faults + 1
          /\ calls' = Append(calls, Req("PUT merge", pr, "",
                                        <<commit_title(prs[i]), merge_method>>, <<>>, "fail"))
          /\ UNCHANGED <<pc, log>>
       \/ /\ calls' = Append(calls,
                         Req("PUT merge", pr, "",
                             <<commit_title(prs[i]), merge_method>>, <<>>, "ok"))
          /\ log' = Append(log, Entry("info", "manually merged"))
          /\ pc' = "done"
          /\ UNCHANGED faults
    /\ UNCHANGED <<gate, loopVars, repairVars, mergeVars, rerunVars, branch, head>>

Merge(D) ==
    /\ pc = "merge"
    /\ \/ CatchAll(Req("PUT merge", pr, "", <<commit_title(prs[i]), merge_method>>, <<>>, "fail"), D)
       \/ /\ calls' = Append(calls,
                         Req("PUT merge", pr, "",
                             <<commit_title(prs[i]), merge_method>>, <<>>, "ok"))
          /\ log' = Append(log, Entry("info", "manually merged"))
          /\ pc' = "done"
          /\ UNCHANGED <<gate, loopVars, repairVars, mergeVars, rerunVars,
                         branch, head, faults>>

(***************************************************************************)
(* script.js 560-631: the Rerun Trigger.                                   *)
(***************************************************************************)
ListWorkflows(D) ==
    /\ pc = "workflows"
    /\ \/ CatchAll(Get("GET workflows", "fail"), D)
       \/ \E names \in D.workflowLists :
            /\ calls' = Append(calls, Get("GET workflows", "ok"))
            /\ workflows' = <<{PathOf(n) : n \in names}>>
            /\ IF workflowPath(options) \in {PathOf(n) : n \in names}
               THEN pc' = "runs" /\ UNCHANGED log
               ELSE pc' = "done" /\ log' = Append(log, Entry("error", "missing workflow"))
            /\ UNCHANGED <<gate, loopVars, repairVars, mergeVars, runs, rerun,
                           branch, head, faults>>

\* fault: the runs of every branch kept
runsOnAnyBranch(rs) == 1..Len(rs)

\* runs.filter((r) => r.head_branch === "main")
runsOnMain(rs) == {k \in 1..Len(rs) : rs[k].head_branch = "main"}

\* .sort((a, b) => b.run_number - a.run_number)[0]
newest(rs, ks) == CHOOSE k \in ks : \A j \in ks : rs[j].run_number <= rs[k].run_number

\* fault: only a run in progress taken as active
isRunning(status) == status = "in_progress"

isActive(status) == status \in ActiveStatuses

\* fault: the minutes counted from the end of the run
minutesSinceCompletion(r, t) == t - DateParse(r.updated_at)

\* (Date.now() - lastRunTime) / (1000 * 60)
minutesSinceLastRun(r, t) == t - DateParse(r.run_started_at)

\* script.js 613-616
throttled(r, t) ==
    r.run_started_at # <<>> /\ minutesSinceLastRun(r, t) < ThrottleMinutes

\* `workflow ran ${minutesSinceLastRun.toFixed(1)} minutes ago, skipping re-run (throttled)`
throttledLog(r, t) ==
    [level |-> "info", msg |-> "throttled", minutes |-> minutesSinceLastRun(r, t)]

\* fault: the rerun requested for another run than lastRun
RerunReqOfOther(r) == Req("POST rerun", 0, "", <<r.id + 1>>, <<>>, "pending")

\* script.js 628-631
RerunReq(r) == Req("POST rerun", 0, "", <<r.id>>, <<>>, "pending")

ListRuns(D) ==
    /\ pc = "runs"
    /\ \/ CatchAll(Get("GET runs", "fail"), D)
       \/ \E l \in D.runLists, newestFirst \in BOOLEAN :
            LET rs == [k \in 1..Len(l) |->
                          MkRun(l[k], k, IF newestFirst THEN Len(l) + 1 - k ELSE k, now)]
            IN /\ runs' = rs
               /\ pc' = "done"
               /\ IF runsOnMain(rs) = {}
                  \* lastRun is undefined: reading lastRun.run_started_at throws
                  THEN /\ calls' = Append(calls, Get("GET runs", "ok"))
                       /\ log' = Append(log, Entry("error", "caught"))
                       /\ UNCHANGED rerun
                  ELSE LET lastRun == rs[newest(rs, runsOnMain(rs))]
                           seen == Entry("info", "lastRun")
                       IN IF isActive(lastRun.status)
                          THEN /\ calls' = Append(calls, Get("GET runs", "ok"))
                               /\ log' = log \o <<seen, Entry("info", "currently running")>>
                               /\ UNCHANGED rerun
                          ELSE IF throttled(lastRun, now)
                          THEN /\ calls' = Append(calls, Get("GET runs", "ok"))
                               /\ log' = log \o <<seen, throttledLog(lastRun, now)>>
                               /\ UNCHANGED rerun
                          ELSE /\ calls' = calls \o <<Get("GET runs", "ok"), RerunReq(lastRun)>>
                               /\ log' = log \o <<seen, Entry("info", "triggering re-run")>>
                               /\ rerun' = "pending"
            /\ UNCHANGED <<gate, loopVars, repairVars, mergeVars, workflows, branch, head,
                           faults>>

\* the rerun request is not awaited: it settles after script() has returned
RerunSettles(D) ==
    /\ rerun = "pending"
    /\ \/ rerun' = "resolved" /\ UNCHANGED faults
       \/ /\ faults < D.maxFaults
          /\ faults' = faults + 1
          /\ rerun' = "rejected"
    /\ UNCHANGED <<gate, pc, loopVars, repairVars, mergeVars, workflows, runs,
                   branch, head, calls, log>>

(***************************************************************************)
(* The specifications.                                                     *)
(***************************************************************************)
Next(D) ==
    \/ Enter
    \/ GetTopics(D)
    \/ ListPRs(D)
    \/ ScanPR
    \/ GetProjenrc(D)
    \/ PutProjenrc(D)
    \/ GetWorkflow(D)
    \/ PutWorkflow(D)
    \/ EnableAutoMerge
    \/ QueryStatus(D)
    \/ Approve(D)
    \/ Recheck(D)
    \/ Merge(D)
    \/ ListWorkflows(D)
    \/ ListRuns(D)
    \/ RerunSettles(D)

(***************************************************************************)
(* The platform states the specifications draw from.                       *)
(***************************************************************************)
\* CI still running; approval missing
Pending == [Ready EXCEPT !.rollup = NULL]
Unreviewed == [Ready EXCEPT !.reviewDecision = "REVIEW_REQUIRED"]

\* The decision engine: every status snapshot, for a listing of one PR.
Engine ==
    [prLists |-> SeqsUpTo(PRShapes, 1),
     statuses |-> Statuses,
     projenrcLines |-> {},
     workflowLines |-> {},
     workflowLists |-> SUBSET WorkflowNames,
     runLists |-> SeqsUpTo(RunShapes, 1),
     maxFaults |-> MaxFaults]

\* The PR Locator: every listing of up to MaxPRs pull requests.
Listings ==
    [prLists |-> SeqsUpTo(PRShapes, MaxPRs),
     statuses |-> {Ready, Pending, Unreviewed},
     projenrcLines |-> {},
     workflowLines |-> {},
     workflowLists |-> SUBSET WorkflowNames,
     runLists |-> SeqsUpTo(RunShapes, 1),
     maxFaults |-> MaxFaults]

\* The Rerun Trigger: every listing of up to MaxRuns workflow runs.
Reruns ==
    [prLists |-> {<<>>, <<StalePR>>, <<OpenPR>>},
     statuses |-> {Ready, Pending, Unreviewed},
     projenrcLines |-> {},
     workflowLines |-> {},
     workflowLists |-> FewWorkflowLists,
     runLists |-> SeqsUpTo(RunShapes, MaxRuns),
     maxFaults |-> MaxFaults]

\* Content Repair: every .projenrc.ts and every workflow file of up to MaxLines
\* lines, on a PR that stays open with its checks running; no request fails.
Repairs ==
    [prLists |-> {<<OpenPR>>},
     statuses |-> {Pending},
     projenrcLines |-> ProjenrcLines,
     workflowLines |-> WorkflowLines,
     workflowLists |-> SUBSET WorkflowNames,
     runLists |-> SeqsUpTo(RunShapes, 1),
     maxFaults |-> 0]

\* Content Repair of a .projenrc.ts that pins a pnpm version other than "9"
Pins ==
    [prLists |-> {<<OpenPR>>},
     statuses |-> {Pending},
     projenrcLines |-> PinnedLines,
     workflowLines |-> {},
     workflowLists |-> SUBSET WorkflowNames,
     runLists |-> SeqsUpTo(RunShapes, 1),
     maxFaults |-> 0]

\* the harness runs script() on the repository again: a new invocation finds
\* the platform as the previous one left it
Again ==
    /\ pc = "done"
    /\ run = 1
    /\ run' = run + 1
    /\ topics' = <<>>
    /\ pc' = "entry"
    /\ prs' = <<>>
    /\ i' = 0
    /\ pr' = 0
    /\ fileResponse' = <<>>
    /\ pending' = <<>>
    /\ wfi' = 0
    /\ updatedFiles' = <<>>
    /\ autoMergeEnabled' = FALSE
    /\ result' = NoResult
    /\ workflows' = <<>>
    /\ runs' = <<>>
    /\ UNCHANGED <<options, repository, now, branch, head, rerun, calls, log, faults>>

Spec == Init /\ [][Next(Engine)]_vars

SpecLocator == InitLocator /\ [][Next(Listings)]_vars

SpecRerun == InitRerun /\ [][Next(Reruns)]_vars

\* two invocations on a PR that is not ready: the steps up to the status query
NextRepair(D) ==
    \/ Enter
    \/ GetTopics(D)
    \/ ListPRs(D)
    \/ ScanPR
    \/ GetProjenrc(D)
    \/ PutProjenrc(D)
    \/ GetWorkflow(D)
    \/ PutWorkflow(D)
    \/ EnableAutoMerge
    \/ QueryStatus(D)
    \/ Again

SpecRepair == Init /\ [][NextRepair(Repairs)]_vars

\* one invocation, up to the status query
NextPinned(D) ==
    \/ Enter
    \/ GetTopics(D)
    \/ ListPRs(D)
    \/ ScanPR
    \/ GetProjenrc(D)
    \/ PutProjenrc(D)
    \/ GetWorkflow(D)
    \/ PutWorkflow(D)
    \/ EnableAutoMerge
    \/ QueryStatus(D)

SpecPinned == Init /\ [][NextPinned(Pins)]_vars

(***************************************************************************)
(* Properties.  A request is named by its place in calls.                  *)
(***************************************************************************)
Issued(op) == {k \in DOMAIN calls : calls[k].op = op}

\* the status snapshot has been fetched
Fetched == result.oid # 0

\* the snapshot's CI rollup is not SUCCESS; an absent rollup counts
CINotSuccess == Fetched /\ result.rollup # "SUCCESS"

C2_NeverBothMergeRequests ==
    Issued("enableAutoMerge") = {} \/ Issued("PUT merge") = {}

\* C2, amended: the squash-merge request is issued only after the auto-merge-
\* enable mutation of the same run, for the same PR, was rejected; each of
\* the two is issued at most once, so a run never has both an accepted
\* auto-merge-enable and a squash-merge request.
C2_SquashMergeOnlyAfterRejectedAutoMerge ==
    /\ Cardinality(Issued("enableAutoMerge")) <= 1
    /\ Cardinality(Issued("PUT merge")) <= 1
    /\ \A m \in Issued("PUT merge") :
          /\ Issued("enableAutoMerge") # {}
          /\ \A a \in Issued("enableAutoMerge") :
                a < m /\ calls[a].res = "fail" /\ calls[a].pr = calls[m].pr

C2_Witness ==
    /\ Issued("PUT merge") # {}
    /\ Issued("enableAutoMerge") # {}
    /\ pc = "done"

\* the snapshot says the caller authored the PR, or authored one of the
\* latest opinionated reviews
CallerCannotApprove ==
    /\ Fetched
    /\ \/ result.viewerDidAuthor
       \/ \E k \in DOMAIN result.reviews : result.reviews[k]

\* C3, as stated: in a run whose snapshot says the caller authored the PR or
\* already reviewed it, the approval review is never submitted and the run
\* ends without merging.
C3_NoApprovalNoMergeByAuthorOrReviewer ==
    CallerCannotApprove =>
        Issued("POST reviews") = {} /\ Issued("PUT merge") = {}

\* C3, amended: in a run whose snapshot says the caller authored the PR or
\* already reviewed it, the approval review is never submitted; when in
\* addition the snapshot's review decision is not APPROVED, no squash-merge
\* request is issued either.
C3_NoApprovalByAuthorOrReviewer ==
    CallerCannotApprove =>
        /\ Issued("POST reviews") = {}
        /\ result.reviewDecision # "APPROVED" => Issued("PUT merge") = {}

C3_Witness ==
    /\ CallerCannotApprove
    /\ result.viewerCanUpdate
    /\ result.rollup = "SUCCESS"
    /\ result.mergeable = "MERGEABLE"
    /\ result.reviewDecision # "APPROVED"
    /\ pc = "done"

\* the review decision re-fetched after the run's own approval
Refetched(d) ==
    \E a \in Issued("POST reviews") : \E q \in Issued("reviewDecision") :
        a < q /\ calls[a].res = "ok" /\ calls[q].res = d

\* C4: a squash-merge request is issued only if the review decision was
\* APPROVED in the snapshot or in the re-fetch made after the run's approval;
\* a re-fetched decision other than APPROVED ends the run without a merge
\* request.
C4_MergeOnlyWhenApproved ==
    /\ Issued("PUT merge") # {} =>
          result.reviewDecision = "APPROVED" \/ Refetched("APPROVED")
    /\ \A d \in ReviewDecisions \ {"APPROVED"} :
          Refetched(d) => Issued("PUT merge") = {} /\ pc = "done"

C4_Witness ==
    /\ Issued("PUT merge") # {}
    /\ result.reviewDecision # "APPROVED"
    /\ Refetched("APPROVED")

\* the latest run on main: the one with the highest run_number
LatestOnMain ==
    {k \in DOMAIN runs :
        /\ runs[k].head_branch = "main"
        /\ \A j \in DOMAIN runs :
              runs[j].head_branch = "main" => runs[j].run_number <= runs[k].run_number}

C6_SecondRepairWritesNothing ==
    \A w \in Issued("PUT contents") :
        calls[w].run = 2 =>
            ~\E r \in Issued("GET contents") : calls[r].run = 1

\* C7: on an archived repository the run issues no API request at all and,
\* once it has returned, has logged exactly one entry, the skip message.
C7_ArchivedIssuesNothing ==
    repository.archived =>
        /\ calls = <<>>
        /\ Len(log) <= 1
        /\ pc = "done" => log = <<[level |-> "info", msg |-> "archived"]>>

C7_Witness == repository.archived /\ pc = "done" /\ Len(log) = 1

\* the topics read returned the opt-out label
HasNoTouch == topics # <<>> /\ "octoherd-no-touch" \in topics[1]

\* C8: on a repository that is not archived and carries the topic
\* octoherd-no-touch, the run issues exactly one API request, the topics
\* read: it lists neither PRs nor workflows and writes nothing.
C8_NoTouchIssuesOneRead ==
    HasNoTouch =>
        /\ ~repository.archived
        /\ Len(calls) = 1
        /\ calls[1].op = "GET topics"
        /\ pc = "done"

C8_Witness == HasNoTouch /\ pc = "done" /\ Len(log) = 1

TitleMatches(k) == startsWith(prs[k].title, expectedTitle(options))

\* the first PR of the list that matches the title and is merged
FirstMergedMatch ==
    {k \in DOMAIN prs :
        /\ TitleMatches(k) /\ prs[k].merged_at # <<>>
        /\ \A j \in 1..(k - 1) : ~(TitleMatches(j) /\ prs[j].merged_at # <<>>)}

\* recency checking applies and PR k was merged more than maxAgeDays ago
StaleMerge(k) ==
    /\ options.majorVersion \in {"all", "projen"}
    /\ now - prs[k].merged_at[1] > options.maxAgeDays * MinutesPerDay

\* C9: when recency checking applies and the first merged title match of the
\* list is older than maxAgeDays, no later PR of the list is examined,
\* selected or made the target of a request.
C9_NothingAfterStaleMerge ==
    \A k \in FirstMergedMatch :
        StaleMerge(k) =>
            /\ i <= k
            /\ pr <= k
            /\ \A c \in DOMAIN calls : calls[c].pr <= k

\* the scan stopped at a stale merge that an open title match follows
C9_Witness ==
    \E k \in FirstMergedMatch :
        /\ StaleMerge(k)
        /\ pc = "workflows"
        /\ i = k
        /\ k < Len(prs)
        /\ TitleMatches(k + 1)
        /\ prs[k + 1].merged_at = <<>> /\ prs[k + 1].closed_at = <<>>
        /\ ~prs[k + 1].draft

\* PR k matches the title and is not merged, not closed and not a draft
Live(k) ==
    /\ k \in DOMAIN prs
    /\ TitleMatches(k)
    /\ prs[k].merged_at = <<>>
    /\ prs[k].closed_at = <<>>
    /\ ~prs[k].draft

\* C10: every request of a run that is directed at a PR (contents reads and
\* writes, auto-merge-enable, status queries, approval, merge) is directed at
\* one PR, the first of the list that matches the title and is not merged,
\* not closed and not a draft.
C10_OneTargetFirstLiveMatch ==
    \A c \in DOMAIN calls :
        calls[c].pr # 0 =>
            /\ Live(calls[c].pr)
            /\ \A j \in 1..(calls[c].pr - 1) : ~Live(j)
            /\ calls[c].pr = pr

\* the run merged a PR that is not the first of the list
C10_Witness ==
    \E m \in Issued("PUT merge") : calls[m].pr > 1 /\ calls[m].res = "ok"

\* PR k is a title match that is neither merged nor closed, and a draft
DraftMatch(k) ==
    /\ TitleMatches(k)
    /\ prs[k].merged_at = <<>>
    /\ prs[k].closed_at = <<>>
    /\ prs[k].draft

\* C11, as stated: when the first title match that is neither merged nor
\* closed is a draft, the run logs exactly one warning and issues no API call
\* after the PR listing.
C11_DraftStopsRun ==
    (\E k \in DOMAIN prs :
        /\ DraftMatch(k)
        /\ \A j \in 1..(k - 1) :
              ~(TitleMatches(j) /\ prs[j].merged_at = <<>> /\ prs[j].closed_at = <<>>))
    => /\ Len(calls) = 2
       /\ calls[2].op = "GET pulls"
       /\ Len(log) <= 1
       /\ pc = "done" => log = <<[level |-> "warn", msg |-> "draft"]>>

\* C11, amended: when the first title match that is not closed without a
\* merge is an unmerged draft (no merged title match precedes it in the
\* list), the run logs exactly one warning and issues no API call after the
\* PR listing.
C11_DraftReachedStopsRun ==
    (\E k \in DOMAIN prs :
        /\ DraftMatch(k)
        /\ \A j \in 1..(k - 1) :
              ~(TitleMatches(j) /\ (prs[j].merged_at # <<>> \/ prs[j].closed_at = <<>>)))
    => /\ Len(calls) = 2
       /\ calls[2].op = "GET pulls"
       /\ Len(log) <= 1
       /\ pc = "done" => log = <<[level |-> "warn", msg |-> "draft"]>>

\* the scan passed a closed title match and returned at the draft behind it
C11_Witness ==
    /\ pc = "done"
    /\ i = 2
    /\ DraftMatch(2)
    /\ TitleMatches(1)
    /\ log = <<[level |-> "warn", msg |-> "draft"]>>

\* the requests that failed
Failed == {k \in DOMAIN calls : calls[k].res = "fail"}

\* C12: with the variant selector present, every failing API call, the rerun
\* request included, is caught and logged: script() does not throw, every
\* failed request has its log entry, and no promise is left rejected.
C12_NoFailureEscapes ==
    options.majorVersion # NULL =>
        /\ pc # "threw"
        /\ Cardinality(Failed) <= Len(log)
        /\ rerun # "rejected"

\* the snapshot passes every row of the decision table
PassesAllGates ==
    /\ Fetched
    /\ result.viewerCanUpdate
    /\ result.rollup = "SUCCESS"
    /\ result.mergeable = "MERGEABLE"
    /\ result.reviewDecision = "APPROVED"

ReadyLog == [level |-> "info", msg |-> "ready to merge (merge disabled)"]

\* C13: with the merge option false no run issues the auto-merge-enable
\* mutation or the squash-merge request, whatever the PR status; a PR that
\* passes all gates yields the readiness log and nothing else after the
\* snapshot (for a variant without Content Repair it is the run's only log).
C13_ValidateOnlyNeverMerges ==
    ~options.merge =>
        /\ Issued("enableAutoMerge") = {}
        /\ Issued("PUT merge") = {}
        /\ PassesAllGates /\ pc = "done" =>
              /\ log[Len(log)] = ReadyLog
              /\ calls[Len(calls)].op = "prStatus"
              /\ options.majorVersion # "projen" => log = <<ReadyLog>>

C13_Witness ==
    ~options.merge /\ PassesAllGates /\ pc = "done" /\ log = <<ReadyLog>>

\* the squash merge of PR n under the title 'T (#N)'
SquashMergeOf(n) == <<prs[n].title \o <<" (#", n, ")">>, "squash">>

\* C14, as stated: with merge enabled, a run on an open title match whose
\* snapshot has CI SUCCESS, MERGEABLE and APPROVED requests a squash merge
\* with commit title 'T (#N)'.
C14_ApprovedPRIsSquashMerged ==
    /\ options.merge
    /\ Fetched
    /\ result.rollup = "SUCCESS"
    /\ result.mergeable = "MERGEABLE"
    /\ result.reviewDecision = "APPROVED"
    /\ pc = "done"
    => \E m \in Issued("PUT merge") :
          calls[m].pr = pr /\ calls[m].arg = SquashMergeOf(pr)

\* C14, amended: with merge enabled, a run on an open title match that the
\* caller can update and whose snapshot has CI SUCCESS, MERGEABLE and APPROVED
\* requests a squash merge with commit title 'T (#N)' if its auto-merge-enable
\* mutation was rejected; if the mutation was accepted it requests no squash
\* merge and logs readiness.  Every squash merge carries that title.
C14_ApprovedPRIsMergedOneWay ==
    /\ \A m \in Issued("PUT merge") : calls[m].arg = SquashMergeOf(calls[m].pr)
    /\ options.merge /\ PassesAllGates /\ pc = "done" =>
          \E a \in Issued("enableAutoMerge") :
              IF calls[a].res = "fail"
              THEN \E m \in Issued("PUT merge") :
                      calls[m].pr = pr /\ calls[m].arg = SquashMergeOf(pr)
              ELSE Issued("PUT merge") = {} /\ log[Len(log)] = ReadyLog

C14_Witness ==
    /\ options.merge /\ PassesAllGates /\ pc = "done"
    /\ \E m \in Issued("PUT merge") : calls[m].res = "ok" /\ calls[m].pr = pr

\* the latest run on main is completed and finished 10 minutes ago
LatestCompletedRecently ==
    /\ pc = "done"
    /\ LatestOnMain # {}
    /\ \A k \in LatestOnMain :
          runs[k].status = "completed" /\ runs[k].updated_at = <<now - 10>>

\* the last log entry is a throttle log
ThrottleLogged == Len(log) > 0 /\ log[Len(log)].msg = "throttled"

\* C15, as stated: when no PR matches and the latest run of the workflow
\* completed 10 minutes ago, whatever its start time, no rerun request is
\* issued and the run ends with a throttle log.
C15_NoRerunAfterRecentCompletion ==
    LatestCompletedRecently => Issued("POST rerun") = {} /\ ThrottleLogged

\* C15, amended: when no PR matches and the latest run on main is completed,
\* the throttle goes by its start time: started less than 30 minutes ago, no
\* rerun request is issued and the run ends with a throttle log stating the
\* minutes since that start; started 30 minutes ago or more, or without a
\* start time, the rerun is requested even though the run completed 10
\* minutes ago.
C15_ThrottledByStartTime ==
    LatestCompletedRecently =>
        \A k \in LatestOnMain :
            IF runs[k].run_started_at # <<>> /\ now - runs[k].run_started_at[1] < 30
            THEN /\ Issued("POST rerun") = {}
                 /\ log[Len(log)] = [level |-> "info", msg |-> "throttled",
                                     minutes |-> now - runs[k].run_started_at[1]]
            ELSE /\ Issued("POST rerun") # {}
                 /\ ~ThrottleLogged

\* a latest run started 29 minutes ago and finished 10 minutes ago: throttled
C15_Witness ==
    /\ LatestCompletedRecently
    /\ \E k \in LatestOnMain : runs[k].run_started_at = <<now - 29>>
    /\ ThrottleLogged
    /\ log[Len(log)].minutes = 29

\* the four files of Content Repair
RepairPaths == {projenrcPath} \cup {workflowFiles[k] : k \in DOMAIN workflowFiles}

\* Content Repair is over
PastRepair == pc \notin {"entry", "topics", "pulls", "scan", "getProjenrc",
                         "putProjenrc", "getWorkflow", "putWorkflow", "threw"}

\* a read or a write of one of the files failed
FailedContents ==
    {c \in Issued("GET contents") \cup Issued("PUT contents") : calls[c].res = "fail"}

\* C16: in Content Repair every file is processed independently: after a
\* failed read or write on one file every one of the four files has still
\* been read, a log entry stands for each failure, and the run goes on to the
\* status query.
C16_FailedFileLeavesOthersProcessed ==
    options.majorVersion = "projen" /\ PastRepair /\ FailedContents # {} =>
        /\ \A path \in RepairPaths :
              \E c \in Issued("GET contents") : calls[c].path = path
        /\ Cardinality(FailedContents) <= Len(log)
        /\ pc = "done" => Issued("prStatus") # {}

\* C17: every run that has returned has logged, and the entry that states
\* its outcome, the last one, carries the repository identity.
C17_EveryOutcomeLoggedWithRepository ==
    pc = "done" => Len(log) > 0 /\ namesRepository(log[Len(log)])

\* C18: without the variant selector script() throws before any API request
\* and before any log entry, and the error leaves script(): the run never
\* returns normally and the catch-all logs nothing.
C18_MissingVariantFailsFast ==
    options.majorVersion = NULL =>
        /\ pc \in {"entry", "threw"}
        /\ calls = <<>>
        /\ log = <<>>
        /\ rerun = "none"

\* the error has been thrown, on an archived repository too
C18_Witness ==
    options.majorVersion = NULL /\ pc = "threw" /\ repository.archived

\* the scan has acted on PR k, a merged title match
ActedOnMerged(k) ==
    /\ TitleMatches(k)
    /\ prs[k].merged_at # <<>>
    /\ i = k
    /\ pc # "scan"

AlreadyMergedLog == [level |-> "info", msg |-> "already merged"]

GatesPassedBefore(c) ==
    /\ \E q \in Issued("prStatus") : q < c /\ calls[q].res = "ok"
    /\ result.viewerCanUpdate
    /\ result.rollup = "SUCCESS"
    /\ result.mergeable = "MERGEABLE"

StageOf(op) ==
    CASE op = "GET topics" -> 1
      [] op = "GET pulls" -> 2
      [] op \in {"GET contents", "PUT contents", "GET workflows"} -> 3
      [] op \in {"enableAutoMerge", "GET runs"} -> 4
      [] op \in {"prStatus", "POST rerun"} -> 5
      [] op \in {"POST reviews", "reviewDecision"} -> 6
      [] op = "PUT merge" -> 7

FirstRow ==
    IF ~result.viewerCanUpdate THEN 1
    ELSE IF result.rollup # "SUCCESS" THEN 2
    ELSE IF result.mergeable # "MERGEABLE" THEN 3
    ELSE IF result.reviewDecision # "APPROVED" THEN 4
    ELSE 5

\* the run ended on the snapshot with the given skip message
SkippedWith(msg) ==
    /\ pc = "done"
    /\ log[Len(log)] = [level |-> "info", msg |-> msg]
    /\ calls[Len(calls)].op = "prStatus"
    /\ Issued("POST reviews") = {}
    /\ Issued("PUT merge") = {}

\* C21: once the snapshot is fetched the run follows the first row of the
\* table that matches: rows 1, 2 and 3 end the run with their own skip
\* message, no approval and no squash merge; row 4 hands over to the
\* approval step (which approves, or ends the run awaiting approval when the
\* caller authored or reviewed the PR); row 5 hands over to the merge step.
C21_FirstMatchingRowWins ==
    Fetched =>
        CASE FirstRow = 1 -> SkippedWith("cannot update")
          [] FirstRow = 2 -> SkippedWith("status")
          [] FirstRow = 3 -> SkippedWith("not mergeable")
          [] FirstRow = 4 ->
                IF CallerCannotApprove
                THEN SkippedWith("awaiting approval")
                ELSE pc = "approve" \/ Issued("POST reviews") # {}
          [] FirstRow = 5 ->
                /\ Issued("POST reviews") = {}
                /\ \/ pc = "merge"
                   \/ Issued("PUT merge") # {}
                   \/ pc = "done" /\ log[Len(log)] = ReadyLog

\* a snapshot that matches rows 1, 2 and 3 at once is skipped by row 1
C21_Witness ==
    /\ Fetched
    /\ ~result.viewerCanUpdate
    /\ result.rollup = "FAILURE"
    /\ result.mergeable = "CONFLICTING"
    /\ SkippedWith("cannot update")

\* PR j is a title match closed without being merged, and not a draft
ClosedUnmerged(j) ==
    /\ TitleMatches(j)
    /\ prs[j].merged_at = <<>>
    /\ prs[j].closed_at # <<>>
    /\ ~prs[j].draft

\* C22: when the PRs listed before an open non-draft title match are other
\* PRs or title matches closed without being merged, the scan goes through
\* them and selects that open PR: it is still on its way to it, or it has
\* selected it.
C22_ClosedNeverStopsScan ==
    \A k \in DOMAIN prs :
        Live(k) /\ (\A j \in 1..(k - 1) : ~TitleMatches(j) \/ ClosedUnmerged(j)) =>
            \/ pc = "scan" /\ i <= k /\ pr = 0
            \/ pr = k /\ i = k /\ pc # "scan" /\ pc # "workflows"

\* the second PR of the list selected behind a closed title match
C22_Witness ==
    /\ Len(prs) = 2
    /\ ClosedUnmerged(1)
    /\ Live(2)
    /\ pr = 2
    /\ pc = "done"

\* PR j is a title match that is neither merged nor closed
OpenMatch(j) ==
    TitleMatches(j) /\ prs[j].merged_at = <<>> /\ prs[j].closed_at = <<>>

\* C23: when the first merged title match of the list comes before every
\* open title match and is within the recency window, or recency is not
\* checked, the run reports 'already merged' and ends there: its only
\* requests are the topics read and the PR listing, it selects no PR, writes
\* nothing and lists no workflow, whatever follows in the list.
C23_RecentMergeEndsRun ==
    \A k \in FirstMergedMatch :
        ~StaleMerge(k) /\ (\A j \in 1..(k - 1) : ~OpenMatch(j)) =>
            /\ Len(calls) = 2
            /\ calls[1].op = "GET topics" /\ calls[2].op = "GET pulls"
            /\ pr = 0
            /\ rerun = "none"
            /\ \/ pc = "scan" /\ i <= k /\ log = <<>>
               \/ pc = "done" /\ i = k /\ log = <<AlreadyMergedLog>>

\* 'already merged' reported with an open title match behind the merged one
C23_Witness ==
    /\ pc = "done"
    /\ log = <<AlreadyMergedLog>>
    /\ 1 \in FirstMergedMatch
    /\ Len(prs) > 1
    /\ Live(2)

\* the Rerun Trigger has been reached
RerunTriggerReached ==
    \/ pc \in {"workflows", "runs"}
    \/ Issued("GET workflows") \cup Issued("GET runs") \cup Issued("POST rerun") # {}

\* the log holds an entry with the given message
Logged(msg) == \E n \in DOMAIN log : log[n].msg = msg

\* C24: the Rerun Trigger is reached only in a run whose locator selected no
\* PR: the scan went through the whole list without finding a live match, or
\* it halted on a stale merged title match.  Such a run has logged 'no PR',
\* has reported neither 'already merged' nor 'draft', and has directed no
\* request at a PR.
C24_RerunOnlyWithoutPR ==
    RerunTriggerReached =>
        /\ pr = 0
        /\ \A c \in DOMAIN calls : calls[c].pr = 0
        /\ Logged("no PR")
        /\ ~Logged("already merged") /\ ~Logged("draft")
        /\ \A j \in 1..(i - 1) : ~Live(j) /\ ~DraftMatch(j)
        /\ \/ i = Len(prs) + 1
           \/ /\ i \in DOMAIN prs
              /\ TitleMatches(i) /\ prs[i].merged_at # <<>>
              /\ StaleMerge(i)
              /\ Logged("merged, ignoring")

\* a rerun requested after the scan halted on a stale merge, an open title
\* match behind it
C24_Witness ==
    /\ Issued("POST rerun") # {}
    /\ i = 1
    /\ Len(prs) > 1
    /\ Live(2)

\* the latest run on the repository's default branch
LatestOnDefault ==
    {k \in DOMAIN runs :
        /\ runs[k].head_branch = repository.default_branch
        /\ \A j \in DOMAIN runs :
              runs[j].head_branch = repository.default_branch
                  => runs[j].run_number <= runs[k].run_number}

\* C25: the run taken as latest, and the only run a rerun is requested for,
\* is the one with the highest run number among the runs on the repository's
\* default branch, whatever its name: when the listing holds such a run it
\* is logged as the last run, and every rerun request names it.
C25_LatestIsOnDefaultBranch ==
    /\ LatestOnDefault # {} => Logged("lastRun")
    /\ \A c \in Issued("POST rerun") :
          \E k \in LatestOnDefault : calls[c].arg = <<runs[k].id>>

\* the path of the variant's workflow
VariantWorkflowPath ==
    <<".github/workflows/",
      IF options.majorVersion = "projen" THEN "update-projen-main" ELSE "renovate",
      ".yml">>

MissingWorkflowLog == [level |-> "error", msg |-> "missing workflow"]

\* C26: when the workflow listing holds no workflow at the variant's path,
\* the run logs the error and stops there: the listing is its last request,
\* no run listing and no rerun request is issued.  When the listing holds
\* it, the run goes on to the run listing.
C26_MissingWorkflowStops ==
    workflows # <<>> =>
        IF VariantWorkflowPath \notin workflows[1]
        THEN /\ pc = "done"
             /\ log[Len(log)] = MissingWorkflowLog
             /\ calls[Len(calls)].op = "GET workflows"
             /\ Issued("GET runs") = {}
             /\ Issued("POST rerun") = {}
             /\ rerun = "none"
        ELSE /\ ~Logged("missing workflow")
             /\ pc = "runs" \/ Issued("GET runs") # {}

\* a projen run that finds the renovate workflow only
C26_Witness ==
    /\ options.majorVersion = "projen"
    /\ workflows = <<{PathOf("renovate"), PathOf("build")}>>
    /\ pc = "done"
    /\ log[Len(log)] = MissingWorkflowLog

\* the reads of the path of write w made before it
ReadsBefore(w) ==
    {r \in Issued("GET contents") : r < w /\ calls[r].path = calls[w].path}

\* C27: every contents write of Content Repair follows a successful read of
\* the same path in the same run, carries the sha that read returned, writes
\* content that differs from the content read, and is directed at the branch
\* of the selected PR.  A path is written at most once: a rejected write is
\* logged and not retried.
C27_WritesAreGuarded ==
    \A w \in Issued("PUT contents") :
        /\ ReadsBefore(w) # {}
        /\ \A r \in ReadsBefore(w) :
              /\ calls[r].res = "ok"
              /\ calls[r].sha = calls[w].sha
              /\ calls[r].pr = calls[w].pr
        /\ calls[w].arg # calls[w].sha
        /\ calls[w].pr = pr /\ Live(pr)
        /\ \A x \in Issued("PUT contents") : calls[x].path = calls[w].path => x = w
        /\ calls[w].res = "fail" =>
              \E n \in DOMAIN log :
                  log[n].msg \in {"error while fixing projenrc",
                                  "failed to update workflow file"}

\* a rejected write of build.yml after the write of .projenrc.ts
C27_Witness ==
    /\ \E w \in Issued("PUT contents") :
          calls[w].path = projenrcPath /\ calls[w].res = "ok"
    /\ \E w \in Issued("PUT contents") :
          calls[w].path = workflowFiles[1] /\ calls[w].res = "fail"
    /\ pc = "done"

\* every workflow file has been read
WorkflowFilesRead ==
    \A k \in DOMAIN workflowFiles :
        \E c \in Issued("GET contents") : calls[c].path = workflowFiles[k]

\* C28: a projen run that has selected a PR and is past Content Repair has
\* gone through the workflow files, whatever happened to .projenrc.ts: marker
\* found or not, file present or not, write accepted or not.
C28_WorkflowRewriteUnconditional ==
    options.majorVersion = "projen" /\ pr # 0 /\ PastRepair => WorkflowFilesRead

\* the run is over with a snapshot that passes rows 1-3 and an approval,
\* found in the snapshot or obtained by the run
EndedApproved ==
    /\ pc = "done"
    /\ Fetched
    /\ result.viewerCanUpdate
    /\ result.rollup = "SUCCESS"
    /\ result.mergeable = "MERGEABLE"
    /\ result.reviewDecision = "APPROVED" \/ Refetched("APPROVED")

\* C29: the auto-merge-enable mutation is attempted only with merge enabled.
\* When it is rejected the rejection is logged, the run goes on to the status
\* query, and a run that ends with all gates passed has requested the squash
\* merge; when it is accepted no squash merge is requested.
C29_RejectedAutoMergeFallsThrough ==
    \A a \in Issued("enableAutoMerge") :
        /\ options.merge
        /\ IF calls[a].res = "fail"
           THEN /\ ~autoMergeEnabled
                /\ log[Len(log)].msg # "caught" \/ calls[Len(calls)].op # "enableAutoMerge"
                /\ Logged("auto-merge not available")
                /\ pc = "status" \/ Issued("prStatus") # {}
                /\ EndedApproved =>
                      \E m \in Issued("PUT merge") : a < m /\ calls[m].pr = calls[a].pr
           ELSE /\ autoMergeEnabled
                /\ Logged("auto-merge enabled")
                /\ Issued("PUT merge") = {}
                /\ pc # "merge"

\* after a rejected auto-merge mutation the run approved the PR, found it
\* approved and merged it
C29_Witness ==
    /\ \E a \in Issued("enableAutoMerge") : calls[a].res = "fail"
    /\ Refetched("APPROVED")
    /\ \E m \in Issued("PUT merge") : calls[m].res = "ok"
    /\ pc = "done"

\* request c comes right after a request of the given kind
RightAfter(c, op) == c > 1 /\ calls[c - 1].op = op

\* C30: a run issues the full status query at most once and the review-
\* decision re-fetch at most once.  The approval is submitted right after the
\* snapshot; the re-fetch is issued exactly when the approval was accepted,
\* as the very next request (a rejected approval ends the run); the squash
\* merge that follows an APPROVED re-fetch is the next request after it and
\* goes by the CI and mergeable values of the one snapshot.
C30_TwoStatusReadsNoLoop ==
    /\ Cardinality(Issued("prStatus")) <= 1
    /\ Cardinality(Issued("reviewDecision")) <= 1
    /\ \A a \in Issued("POST reviews") :
          /\ RightAfter(a, "prStatus")
          /\ IF calls[a].res = "ok"
             THEN \/ pc = "recheck" /\ a = Len(calls)
                  \/ a < Len(calls) /\ calls[a + 1].op = "reviewDecision"
             ELSE pc = "done" /\ a = Len(calls)
    /\ \A q \in Issued("reviewDecision") :
          RightAfter(q, "POST reviews") /\ calls[q - 1].res = "ok"
    /\ \A m \in Issued("PUT merge") :
          /\ result.rollup = "SUCCESS" /\ result.mergeable = "MERGEABLE"
          /\ IF Issued("POST reviews") = {}
             THEN RightAfter(m, "prStatus")
             ELSE RightAfter(m, "reviewDecision") /\ calls[m - 1].res = "APPROVED"

\* snapshot, approval, re-fetch and merge, one after the other
C30_Witness ==
    /\ pc = "done"
    /\ Len(calls) >= 4
    /\ calls[Len(calls)].op = "PUT merge" /\ calls[Len(calls)].res = "ok"
    /\ calls[Len(calls) - 1].op = "reviewDecision"
    /\ calls[Len(calls) - 2].op = "POST reviews"
    /\ calls[Len(calls) - 3].op = "prStatus"

\* the writes of a run that are not contents writes
WriteOps == {"enableAutoMerge", "POST reviews", "PUT merge", "POST rerun"}

\* C31: nothing is retried: a run issues at most one auto-merge-enable
\* mutation, one approval review, one squash-merge request and one rerun
\* request, and at most one contents write per file path; a write that was
\* rejected is followed by no write of the same kind.
C31_NothingRetried ==
    /\ \A op \in WriteOps : Cardinality(Issued(op)) <= 1
    /\ \A path \in RepairPaths :
          Cardinality({w \in Issued("PUT contents") : calls[w].path = path}) <= 1
    /\ \A w \in DOMAIN calls :
          calls[w].op \in WriteOps \cup {"PUT contents"} /\ calls[w].res = "fail" =>
              \A x \in DOMAIN calls :
                  x > w => calls[x].op # calls[w].op \/ calls[x].path # calls[w].path

\* a rejected squash merge, the last request of its run
C31_Witness ==
    /\ pc = "done"
    /\ calls # <<>>
    /\ calls[Len(calls)].op = "PUT merge"
    /\ calls[Len(calls)].res = "fail"
    /\ log[Len(log)].msg = "caught"

\* the commits this run has put on the PR branch
RepairCommits == {w \in Issued("PUT contents") : calls[w].res = "ok"}

\* C32: the approval review references the commit id of the snapshot, the
\* snapshot is fetched after every Content Repair write of the run, and the
\* commit it reports is the tip of the branch with all of the run's repair
\* commits on it.
C32_ApprovalReferencesRepairedHead ==
    /\ \A q \in Issued("prStatus") : \A w \in Issued("PUT contents") : w < q
    /\ \A a \in Issued("POST reviews") :
          /\ calls[a].arg = <<result.oid>>
          /\ result.oid = head
          /\ result.oid = 1 + Cardinality(RepairCommits)
          /\ \A w \in Issued("PUT contents") : w < a

\* an approval that references the commit after two repair commits
C32_Witness ==
    /\ Cardinality(RepairCommits) = 2
    /\ \E a \in Issued("POST reviews") : calls[a].arg = <<3>> /\ calls[a].res = "ok"

\* the writes of workflow files
WorkflowWrites ==
    {w \in Issued("PUT contents") :
        \E k \in DOMAIN workflowFiles : calls[w].path = workflowFiles[k]}

\* the places where the content written by w differs from the content read
ChangedBy(w) ==
    {p \in 1..Len(calls[w].sha) :
        p > Len(calls[w].arg) \/ calls[w].arg[p] # calls[w].sha[p]}

\* C33: a workflow file is written only if it holds the pnpm/action-setup
\* step, and the write changes nothing but a quoted "9" of a version field
\* into the unquoted value, in that step: each changed place is a quoted "9"
\* that stands behind the uses: pnpm/action-setup line, and every other place
\* of the file is as it was read.
C33_RewriteTouchesOnlyTheStanza ==
    \A w \in WorkflowWrites :
        /\ Len(calls[w].arg) = Len(calls[w].sha)
        /\ \E u \in 1..Len(calls[w].sha) : calls[w].sha[u] = "USES"
        /\ \A p \in ChangedBy(w) :
              /\ calls[w].sha[p] = "Q9"
              /\ calls[w].arg[p] = "V10"
              /\ \E u \in 1..(p - 1) : calls[w].sha[u] = "USES"

\* a place of the content c holds the token t
Has(c, t) ==
    \E p \in 1..Len(c) : c[p] = t

\* the reads of .projenrc.ts that returned a file
ProjenrcReads ==
    {r \in Issued("GET contents") :
        calls[r].path = projenrcPath /\ calls[r].res = "ok"}

\* the writes of .projenrc.ts
ProjenrcWrites ==
    {w \in Issued("PUT contents") : calls[w].path = projenrcPath}

\* the content c holds the deprecated marker and a version pin other than "9"
MarkerWithOtherPin(c) ==
    /\ \E p \in 1..(Len(c) - 2) :
          c[p] = "PMK" /\ c[p + 1] = "SP" /\ c[p + 2] = "PMV"
    /\ Has(c, "PV7")

\* C34: when the .projenrc.ts read from the PR branch holds the deprecated
\* marker and a version pin other than "9", the warning naming that version is
\* logged, exactly one commit is made for the file, the committed content holds
\* neither the marker line nor the pin line, and it keeps the javascript import
\* only if the content read still referred to javascript. elsewhere.
C34_PinnedMarkerIsRemoved ==
    \A r \in ProjenrcReads :
        MarkerWithOtherPin(calls[r].sha) /\ PastRepair =>
            /\ Logged("PV7")
            /\ Cardinality(ProjenrcWrites) = 1
            /\ \A w \in ProjenrcWrites :
                  /\ ~Has(calls[w].arg, "PMK")
                  /\ ~Has(calls[w].arg, "PV7")
                  /\ Has(calls[w].arg, "IMPJ") => Has(calls[w].sha, "JSU")

\* the run is of the library-version variant
LibraryVersionRun == options.majorVersion \notin {NULL, "all", "projen"}

\* C35: in a library-version run the locator acts only on a PR whose title is
\* exactly the dependency-bump title of the library and version asked for: the
\* PR it selects, the merged PR it reports as already merged, and the target
\* of every request directed at a PR, has exactly that title.
C35_OnlyTheExactTitleIsActedOn ==
    LibraryVersionRun =>
        /\ pr # 0 => prs[pr].title = expectedTitle(options)
        /\ \A k \in DOMAIN prs :
              ActedOnMerged(k) /\ Logged("already merged") =>
                  prs[k].title = expectedTitle(options)
        /\ \A c \in DOMAIN calls :
              calls[c].pr # 0 => prs[calls[c].pr].title = expectedTitle(options)

\* the contents reads and writes of the run
ContentsCalls == Issued("GET contents") \cup Issued("PUT contents")

\* C36: a contents read or write is issued only in a projen run, after the
\* PR listing, and on the branch of the PR the locator selected, which matches
\* the title and is neither merged, closed nor draft: a run of variant 'all'
\* or of a library version issues none, and so does a run that selected no PR.
C36_RepairOnlyForSelectedProjenPR ==
    /\ \A c \in ContentsCalls :
          /\ options.majorVersion = "projen"
          /\ pr # 0
          /\ calls[c].pr = pr
          /\ Live(pr)
          /\ \E d \in 1..(c - 1) : calls[d].op = "GET pulls"
    /\ options.majorVersion # "projen" \/ pr = 0 => ContentsCalls = {}

\* a projen run read and committed a file of the selected PR's branch
C36_Witness ==
    /\ options.majorVersion = "projen"
    /\ Live(pr)
    /\ \E c \in Issued("GET contents") : calls[c].res = "ok"
    /\ \E c \in Issued("PUT contents") : calls[c].res = "ok" /\ calls[c].pr = pr
    /\ pc = "done"

\* the runs listing was received and none of its runs is on branch main
NoRunOnMain ==
    /\ \E c \in Issued("GET runs") : calls[c].res = "ok"
    /\ \A k \in DOMAIN runs : runs[k].head_branch # "main"

\* the log entries that name a reason for not rerunning
SkipReasons ==
    {n \in DOMAIN log :
        log[n].msg \in {"lastRun", "currently running", "throttled",
                        "triggering re-run"}}

\* C37: when the workflow of the variant exists and its runs listing holds no
\* run on branch main, the run issues no rerun request and ends with the
\* catch-all error entry as its last log entry, without the latest-run entry
\* and without a skip reason.
C37_NoRunOnMainEndsInCatchAll ==
    NoRunOnMain =>
        /\ pc = "done"
        /\ Issued("POST rerun") = {}
        /\ rerun = "none"
        /\ log[Len(log)] = Entry("error", "caught")
        /\ SkipReasons = {}
        /\ calls[Len(calls)].op = "GET runs"

\* the listing held a run, on branch master only
C37_Witness ==
    /\ NoRunOnMain
    /\ Len(runs) > 0
    /\ runs[1].status = "completed"
    /\ pc = "done"

\* the latest run on main is not active and carries no start time
LatestEndedWithoutStart ==
    /\ LatestOnMain # {}
    /\ \A k \in LatestOnMain :
          /\ runs[k].status \notin {"in_progress", "queued", "requested", "waiting", "pending"}
          /\ runs[k].run_started_at = <<>>

\* C38: when the latest run on main is in no active or waiting status and has
\* no run_started_at, the throttle is not applied: no throttle entry is logged
\* and exactly one rerun request is issued, for that run.
C38_RerunWithoutStartTime ==
    LatestEndedWithoutStart =>
        /\ ~Logged("throttled")
        /\ ~Logged("currently running")
        /\ Logged("triggering re-run")
        /\ Cardinality(Issued("POST rerun")) = 1
        /\ \A c \in Issued("POST rerun") : \A k \in LatestOnMain :
              calls[c].arg = <<runs[k].id>>

\* the latest of two runs on main has no start time, the older one started
\* within the throttle window
C38_Witness ==
    /\ LatestEndedWithoutStart
    /\ \E j \in DOMAIN runs :
          /\ j \notin LatestOnMain
          /\ runs[j].head_branch = "main"
          /\ runs[j].run_started_at = <<now - (ThrottleMinutes - 1)>>
    /\ rerun = "resolved"

\* the reads of a file of the PR branch that returned its content
ContentsRead == {r \in Issued("GET contents") : calls[r].res = "ok"}

\* the content that Content Repair commits for the file at path, read as c
RepairedContent(path, c) ==
    IF path = projenrcPath THEN fixProjenrc(c) ELSE replaceQuotedVersion(c)

\* the file read by r calls for a commit
RepairDue(r) ==
    IF calls[r].path = projenrcPath
    THEN hasDeprecatedMarker(calls[r].sha) /\ fixProjenrc(calls[r].sha) # calls[r].sha
    ELSE pnpmActionRegexTest(calls[r].sha)

\* the snapshot calls for the approval review
ApprovalDue ==
    /\ result.viewerCanUpdate
    /\ result.rollup = "SUCCESS"
    /\ result.mergeable = "MERGEABLE"
    /\ result.reviewDecision # "APPROVED"
    /\ ~CallerCannotApprove

\* C39: the merge option decides the auto-merge-enable mutation and the squash
\* merge and nothing else.  With either value of the option, a file read that
\* calls for a repair is followed by the commit of the repaired content, no
\* other commit is made, and the approval review is submitted exactly when the
\* snapshot passes the gates with the PR unapproved and the caller allowed to
\* approve, for the commit of the snapshot.
C39_MergeOptionOnlyGatesMerging ==
    \A m \in BOOLEAN :
        options.merge = m =>
            /\ Issued("enableAutoMerge") \cup Issued("PUT merge") # {} => m
            /\ \A r \in ContentsRead :
                  RepairDue(r) /\ r < Len(calls) =>
                      /\ calls[r + 1].op = "PUT contents"
                      /\ calls[r + 1].path = calls[r].path
                      /\ calls[r + 1].sha = calls[r].sha
                      /\ calls[r + 1].arg = RepairedContent(calls[r].path, calls[r].sha)
            /\ \A w \in Issued("PUT contents") :
                  /\ (w - 1) \in ContentsRead
                  /\ calls[w - 1].path = calls[w].path
                  /\ RepairDue(w - 1)
            /\ Fetched =>
                  (ApprovalDue <=> pc = "approve" \/ Issued("POST reviews") # {})
            /\ \A a \in Issued("POST reviews") : calls[a].arg = <<result.oid>>

\* a validate-only run committed a repair to the PR branch and approved the PR
C39_Witness ==
    /\ ~options.merge
    /\ RepairCommits # {}
    /\ \E a \in Issued("POST reviews") : calls[a].res = "ok"
    /\ Issued("enableAutoMerge") \cup Issued("PUT merge") = {}
    /\ pc = "done"

====
